---- MODULE Spec2Model ----
(***************************************************************************)
(* Repository provisioning workflow of the backend                         *)
(* (services/agent_service.py, github_service.py) and its progress         *)
(* channel (progress.py).                                                  *)
(*                                                                         *)
(* One run of AgentService.assign_to_swe_agent for agent "devin" is a      *)
(* coroutine on the asyncio event loop.  It is cut into actions at its     *)
(* real suspension points (awaited HTTP calls, asyncio.sleep).  Between    *)
(* two suspension points the coroutine runs without interruption, so each  *)
(* action is the code between two of them.  `await broker.publish(...)`    *)
(* puts into an unbounded asyncio.Queue and never suspends; the calls into *)
(* GitHubService (PyGithub / requests) are synchronous and block the loop. *)
(*                                                                         *)
(* Specifications: Spec (one run of assign_to_swe_agent), ResumeSpec (one   *)
(* run of resume_on_existing_repo), StreamSpec (the broker with a          *)
(* publisher, two subscribers and cancel), JobsSpec (the broker with two   *)
(* jobs interleaved), DispatchSpec (prompt, session request and answer of  *)
(* both entry points, two requests with the same inputs), CopySpec (one    *)
(* call of copy_into_existing_repo), ImportSpec (one call of               *)
(* fast_import_from_tar) and KitSpec (the phase routes of api/routes/      *)
(* specs.py on SpecService).                                               *)
(*                                                                         *)
(* Texts of error messages are modelled as the sets of the substrings the  *)
(* code tests for, so `"403" in err` is "403" \in err.                     *)
(***************************************************************************)
EXTENDS Integers, Sequences, FiniteSets, TLC

\* ---------------------------------------------------------------- bounds
MaxMembers == 2        \* regular files in the source tarball
MaxKeepalive == 1      \* keep-alive frames a stream yields in a run
MaxPublished == 3      \* events the publisher of StreamSpec hands to the broker
MaxFiles == 3          \* files the source listing of copy_into_existing_repo has
MaxRequests == 4       \* requests the specs routes answer in a run

\* ------------------------------------------------------ program constants
ProgressEvery == 20    \* fast_import_from_tar reports every 20 blobs

user_login == "alice"
src_owner == "octo"
src_repo == "template"
target_repo == "template-customer"   \* f"{safe_name}-{company_safe}"
GitHubHost == "https://github.com"

JobIds == {"j1", "j2"}
Subscribers == {"s1", "s2"}

VARIABLES
    req,              \* the request: prefer_import, owner, repo, progress_job
    pc,               \* suspension point the run is at
    retried,          \* the pending call is the "Bearer" retry after 401 Bad credentials
    fork_resp,        \* status of the fork response (418: fork skipped), 0 before
    create_resp,      \* status of the create-repository response, 0 before
    get_repo_resp,    \* status of the existence check's response, 0 before
    fork_ok, created_repo, final_repo_name,
    fast_result,      \* success and error of fast_import_from_tar
    is_empty,         \* what _repo_is_empty answered: "yes", "no", "?" before
    created, deleted, \* repository the create / the delete request named
    outcome,          \* returned result or raised exception
    calls,            \* external calls issued so far, in order
    tasks,            \* publish tasks made by asyncio.create_task, not yet run
    queues,           \* ProgressBroker._queues
    cancelled,        \* ProgressBroker._cancelled
    stream,           \* per subscriber: the async generator ProgressBroker.stream
    published,        \* per job: the events PublishEvent handed to publish, in call order
    disp,             \* the dispatcher run twice: inputs, session requests, answers
    copy,             \* one call of GitHubService.copy_into_existing_repo
    contents_resp,    \* resume_on_existing_repo: answer to GET .../contents
    container,        \* SpecService._container is set (Cosmos DB), else in-memory storage
    others,           \* stored specs with a feature number, besides those of SpecIds
    specs,            \* the stored specs of SpecIds (_memory_specs or the container's items)
    kit_resp,         \* the answer to the last request of the specs routes
    imp               \* one call of GitHubService.fast_import_from_tar: the world and the result

jobVars == <<req, pc, retried, fork_resp, create_resp, get_repo_resp, fork_ok, created_repo, final_repo_name,
            fast_result, is_empty, created, deleted, outcome, calls, tasks>>
brokerVars == <<queues, cancelled, stream, published>>
kitVars == <<container, others, specs, kit_resp>>
auxVars == <<disp, copy, contents_resp, kitVars, imp>>
vars == <<jobVars, brokerVars, auxVars>>

\* ------------------------------------------------------------- responses
R(s, t) == [status |-> s, text |-> t]
\* status 0: the awaited call raised (httpx.TimeoutException or another transport error)
Raised == R(0, {"timed out"})
BadCredentials == R(401, {"bad credentials"})
IsBadCredentials(r) == r.status = 401 /\ "bad credentials" \in r.text

\* str(e) of the exceptions github_service catches
E403 == {"403", "forbidden"}
E429 == {"429", "too many requests"}
E429RateLimit == {"429", "rate limit"}
E404 == {"404", "not found"}
E500 == {"500", "server error"}
ETimeout == {"timed out"}
ECancelled == {"cancelled"}
ErrTexts == {E403, E429, E429RateLimit, E404, E500, ETimeout}

NoUrl == << >>
NoData == [status |-> "-", repository_url |-> NoUrl]
NoOutcome == [kind |-> "none", status |-> "-", code |-> 0, action |-> "-",
              fork_url |-> NoUrl, repository_url |-> NoUrl,
              suggested_owner |-> "-", suggested_repo |-> "-"]

\* ------------------------------------------------------- progress broker
get_queue(q, job) == IF job \in DOMAIN q THEN q ELSE q @@ (job :> << >>)

\* publish with one queue for all jobs: the event goes to every job
publishToAll(q, job, event, data) ==
    LET q1 == get_queue(q, job)
    IN [j \in DOMAIN q1 |-> Append(q1[j], [event |-> event, data |-> data])]

publish(q, job, event, data) ==
    LET q1 == get_queue(q, job)
    IN [q1 EXCEPT ![job] = Append(@, [event |-> event, data |-> data])]

is_cancelled(c, job) == job \in c

\* --------------------------------------------- GitHubService (synchronous)
OK == {}

\* What the outside world answers to one call of fast_import_from_tar: the
\* error text of each request ({} when it succeeds), the regular-file members
\* of the tarball, and from which should_cancel() check on the answer is true
\* (0: never).
Members == UNION {[1..n -> {"file", "gitmeta"}] : n \in 0..MaxMembers}

World(m, cf) ==
    [members |-> m, cancel_from |-> cf, meta |-> OK, tar |-> OK, get_repo |-> OK,
     blob_fail |-> 0, blob_err |-> OK, tree |-> OK, commit |-> OK,
     ref_main |-> OK, ref_master |-> OK]

\* The function stops at its first failing request, so the worlds that differ
\* are those with one failing request (and, for the ref, its fallback).
Worlds(cf) ==
    {World(m, cf) : m \in Members}
    \cup {[World(<< >>, cf) EXCEPT !.meta = e] : e \in ErrTexts}
    \cup {[World(<< >>, cf) EXCEPT !.tar = e] : e \in ErrTexts}
    \cup {[World(<<"file">>, cf) EXCEPT !.get_repo = e] : e \in ErrTexts}
    \cup {[World(m, cf) EXCEPT !.blob_fail = i, !.blob_err = e] :
            m \in Members, i \in 1..MaxMembers, e \in {E403, E429RateLimit, E500}}
    \cup {[World(<<"file">>, cf) EXCEPT !.tree = e] : e \in {E403, E500}}
    \cup {[World(<<"file">>, cf) EXCEPT !.commit = e] : e \in {E403, E500}}
    \cup {[World(<<"file">>, cf) EXCEPT !.ref_main = e, !.ref_master = f] :
            e \in {E404, ETimeout}, f \in {OK, E403, E500}}

ShouldCancel(w, n) == w.cancel_from # 0 /\ n >= w.cancel_from

\* for m in members: ... (github_service.py 338-357); st.checks counts the
\* should_cancel() calls made so far, st.cbs lists the `copied` values reported
RECURSIVE StageBlobs(_, _, _)
StageBlobs(w, i, st) ==
    IF i > Len(w.members) THEN st
    ELSE LET chk == st.checks + 1
             st1 == [st EXCEPT !.checks = chk]
         IN IF ShouldCancel(w, chk) THEN st1
            ELSE IF w.members[i] # "file" THEN StageBlobs(w, i + 1, st1)
            ELSE IF w.blob_fail = i
                 THEN [st1 EXCEPT !.error = w.blob_err,
                                  !.writes = Append(@, "create_git_blob")]
            ELSE LET copied == st.copied + 1
                 IN StageBlobs(w, i + 1,
                        [st1 EXCEPT !.copied = copied,
                                    !.writes = Append(@, "create_git_blob"),
                                    !.cbs = IF copied % ProgressEvery = 0
                                            THEN Append(@, copied) ELSE @])

ImportResult(ok, err, cbs, writes, commits, refs) ==
    [success |-> ok, error |-> err, cbs |-> cbs, writes |-> writes,
     commits |-> commits, refs |-> refs]

fast_import_from_tar(w) ==
    IF w.meta # OK THEN ImportResult(FALSE, w.meta, << >>, << >>, 0, 0)
    ELSE IF ShouldCancel(w, 1) THEN ImportResult(FALSE, ECancelled, << >>, << >>, 0, 0)
    ELSE IF w.tar # OK THEN ImportResult(FALSE, w.tar, << >>, << >>, 0, 0)
    ELSE IF w.get_repo # OK THEN ImportResult(FALSE, w.get_repo, <<0>>, << >>, 0, 0)
    ELSE
      LET st == StageBlobs(w, 1, [checks |-> 1, copied |-> 0, cbs |-> <<0>>,
                                  error |-> OK, writes |-> << >>])
          tree == Append(st.writes, "create_git_tree")
          commit == Append(tree, "create_git_commit")
          ref == Append(commit, "create_git_ref")
      IN IF st.error # OK THEN ImportResult(FALSE, st.error, st.cbs, st.writes, 0, 0)
         ELSE IF st.copied = 0 THEN ImportResult(TRUE, OK, st.cbs, st.writes, 0, 0)
         ELSE IF ShouldCancel(w, st.checks + 1)
              THEN ImportResult(FALSE, ECancelled, st.cbs, st.writes, 0, 0)
         ELSE IF w.tree # OK THEN ImportResult(FALSE, w.tree, st.cbs, tree, 0, 0)
         ELSE IF w.commit # OK THEN ImportResult(FALSE, w.commit, st.cbs, commit, 0, 0)
         ELSE IF w.ref_main = OK THEN ImportResult(TRUE, OK, st.cbs, ref, 1, 1)
         \* only a GithubException falls back to refs/heads/master
         ELSE IF w.ref_main = ETimeout THEN ImportResult(FALSE, w.ref_main, st.cbs, ref, 1, 0)
         ELSE IF w.ref_master = OK
              THEN ImportResult(TRUE, OK, st.cbs, Append(ref, "create_git_ref"), 1, 1)
         ELSE ImportResult(FALSE, w.ref_master, st.cbs, Append(ref, "create_git_ref"), 1, 0)

\* GitHubService.create_file: a GithubException becomes success False, any
\* other exception (requests' transport errors) is not caught
CreateFileResults == {"ok", "GithubException", "raised"}

\* ------------------------------------------- assign_to_swe_agent ("devin")
Requests ==
    [prefer_import : BOOLEAN, owner : {"", "acme"},
     repo : {"", "template", "template-acme"}, progress_job : {"", "j1"}]

target_owner == IF req.owner # "" THEN req.owner ELSE user_login
desired_repo_name == IF req.repo # "" THEN req.repo ELSE target_repo
progress_job == req.progress_job

\* `if progress_job: await broker.publish(progress_job, event, data)`
Pub(q, event, data) ==
    IF progress_job # "" THEN publish(q, progress_job, event, data) ELSE q

\* `calls` logs operations: the repeat of a request with a "Bearer" header
\* after 401 Bad credentials belongs to the operation it repeats
Call(name) == name

\* the coroutine is resumed from an awaited call only after the tasks that
\* were ready when it suspended have run (the loop runs its ready queue first)
Resumable == tasks = << >>

Raise(kind, code) == [NoOutcome EXCEPT !.kind = kind, !.code = code]

fork_url == <<GitHubHost, src_owner, src_repo, "fork">>

manual_fork_response ==
    [NoOutcome EXCEPT !.kind = "returned", !.status = "partial_success",
                      !.action = "manual_fork_required", !.fork_url = fork_url,
                      !.suggested_owner = target_owner,
                      !.suggested_repo = desired_repo_name]

PartialData == [status |-> "partial_success", repository_url |-> NoUrl]

\* route handler up to the first awaited request (GET /user)
Start ==
    /\ pc = "idle"
    /\ queues' = Pub(Pub(queues, "start", NoData), "resolve-source", NoData)
    /\ calls' = Append(calls, Call("get_user"))
    /\ pc' = "user"
    /\ UNCHANGED <<req, retried, fork_resp, create_resp, get_repo_resp, fork_ok, created_repo, final_repo_name,
                   fast_result, is_empty, created, deleted, outcome,
                   tasks, cancelled, stream, published, auxVars>>

\* lines 150-161: publish create-start and ask whether the target exists
ToExists ==
    /\ queues' = Pub(queues, "create-start", NoData)
    /\ calls' = Append(calls, Call("get_repo"))
    /\ pc' = "exists"

UserResps == {R(200, {}), R(401, {}), Raised}

\* UserResp without the `if request.prefer_import` of line 99
UserRespAlwaysForks(r) ==
    /\ pc = "user" /\ Resumable
    /\ IF r.status = 0
       THEN /\ outcome' = Raise("TransportError", 500) /\ pc' = "raised"
            /\ UNCHANGED <<queues, calls>>
       ELSE IF r.status # 200
       THEN /\ outcome' = Raise("HTTPException", r.status) /\ pc' = "raised"
            /\ UNCHANGED <<queues, calls>>
       ELSE /\ queues' = Pub(queues, "fork-start", NoData)
            /\ calls' = Append(calls, Call("fork"))
            /\ pc' = "fork"
            /\ UNCHANGED outcome
    /\ UNCHANGED <<req, retried, fork_resp, create_resp, get_repo_resp, fork_ok,
                   created_repo, final_repo_name, fast_result, is_empty, created, deleted,
                   tasks, cancelled, stream, published, auxVars>>

UserResp(r) ==
    /\ pc = "user" /\ Resumable
    /\ IF r.status = 0
       THEN /\ outcome' = Raise("TransportError", 500) /\ pc' = "raised"
            /\ UNCHANGED <<queues, calls>>
       ELSE IF r.status # 200
       THEN /\ outcome' = Raise("HTTPException", r.status) /\ pc' = "raised"
            /\ UNCHANGED <<queues, calls>>
       ELSE IF req.prefer_import
       THEN ToExists /\ UNCHANGED outcome
       ELSE /\ queues' = Pub(queues, "fork-start", NoData)
            /\ calls' = Append(calls, Call("fork"))
            /\ pc' = "fork"
            /\ UNCHANGED outcome
    \* line 100: httpx.Response(status_code=418) stands for the skipped fork
    /\ fork_resp' = IF r.status = 200 /\ req.prefer_import THEN 418 ELSE fork_resp
    /\ UNCHANGED <<req, retried, create_resp, get_repo_resp, fork_ok, created_repo, final_repo_name,
                   fast_result, is_empty, created, deleted,
                   tasks, cancelled, stream, published, auxVars>>

\* line 229 with fork_ok: gh_service is assigned only under `if not fork_ok`
UnboundGhService ==
    /\ outcome' = Raise("UnboundLocalError", 500)
    /\ pc' = "raised"

ForkResps == {R(202, {}), BadCredentials, R(403, {}), R(404, {}), Raised}

ForkResp(r) ==
    /\ pc = "fork" /\ Resumable
    /\ IF IsBadCredentials(r) /\ ~retried
       THEN /\ retried' = TRUE
            /\ UNCHANGED <<calls, pc, fork_resp, fork_ok, final_repo_name, outcome, queues>>
       ELSE /\ retried' = FALSE
            /\ fork_resp' = r.status
            /\ IF r.status = 0
               THEN /\ outcome' = Raise("TransportError", 500) /\ pc' = "raised"
                    /\ UNCHANGED <<fork_ok, final_repo_name, queues, calls>>
               ELSE IF r.status \in {201, 202}
               THEN /\ fork_ok' = TRUE
                    /\ queues' = Pub(queues, "fork-ok", NoData)
                    /\ IF desired_repo_name # src_repo
                       THEN /\ final_repo_name' = desired_repo_name
                            /\ calls' = Append(calls, Call("rename"))
                            /\ pc' = "rename"
                            /\ UNCHANGED outcome
                       ELSE /\ final_repo_name' = src_repo
                            /\ UnboundGhService
                            /\ UNCHANGED calls
               ELSE /\ fork_ok' = FALSE
                    /\ ToExists
                    /\ UNCHANGED <<final_repo_name, outcome>>
    /\ UNCHANGED <<req, create_resp, get_repo_resp, created_repo, fast_result, is_empty, created, deleted,
                   tasks, cancelled, stream, published, auxVars>>

RenameResps == {R(200, {}), R(422, {}), Raised}

RenameResp(r) ==
    /\ pc = "rename" /\ Resumable
    /\ IF r.status = 0
       THEN /\ outcome' = Raise("TransportError", 500) /\ pc' = "raised"
            /\ UNCHANGED final_repo_name
       ELSE /\ final_repo_name' = IF r.status \in {200, 201}
                                  THEN desired_repo_name ELSE src_repo
            /\ UnboundGhService
    /\ UNCHANGED <<req, retried, fork_resp, create_resp, get_repo_resp, fork_ok, created_repo, fast_result,
                   is_empty, created, deleted, calls, tasks, queues,
                   cancelled, stream, published, auxVars>>

\* should_cancel() of lines 226-228: the flag cannot change while the
\* synchronous import runs, so every check of one call sees the same answer
should_cancel == progress_job # "" /\ is_cancelled(cancelled, progress_job)

\* line 256
IsRateLimitError(fr_err) ==
    "403" \in fr_err \/ "rate limit" \in fr_err \/ "forbidden" \in fr_err

\* progress_cb of line 233: one publish task per callback, none without a job id
ProgressTasks(cbs) ==
    IF progress_job # ""
    THEN [i \in 1..Len(cbs) |-> [event |-> "copy-progress", data |-> NoData]]
    ELSE << >>

CallsOf(names) == [i \in 1..Len(names) |-> Call(names[i])]

\* lines 220-316, entered with the target repository present.  The `async
\* with httpx.AsyncClient() as client` block of line 93 ends at line 228, so
\* the client that line 261 sends the legacy import request with is closed:
\* httpx raises RuntimeError before anything is sent, and lines 286-316
\* (legacy import result, content copy) are never reached.
Populate(cl, w) ==
    LET result == fast_import_from_tar(w)
        q1 == Pub(queues, "populate-start", NoData)
        cl1 == Append(cl, Call("tarball_import")) \o CallsOf(result.writes)
    IN /\ tasks' = tasks \o ProgressTasks(result.cbs)
       /\ calls' = cl1
       /\ fast_result' = [success |-> result.success, error |-> result.error]
       /\ IF result.success
          THEN /\ queues' = Pub(q1, "import-ok", NoData)
               /\ final_repo_name' = desired_repo_name
               /\ pc' = "sleep"
               /\ UNCHANGED outcome
          ELSE IF IsRateLimitError(result.error)
          THEN /\ queues' = Pub(q1, "done", PartialData)
               /\ outcome' = manual_fork_response
               /\ pc' = "returned"
               /\ UNCHANGED final_repo_name
          ELSE /\ queues' = q1
               /\ outcome' = Raise("RuntimeError", 500)
               /\ pc' = "raised"
               /\ UNCHANGED final_repo_name

ExistsResps == {R(200, {}), R(404, {}), BadCredentials, R(403, {}), R(500, {}), Raised}

ExistsResp(r, w) ==
    /\ pc = "exists" /\ Resumable
    /\ IF IsBadCredentials(r) /\ ~retried
       THEN /\ retried' = TRUE
            /\ UNCHANGED <<calls, pc, get_repo_resp, final_repo_name, fast_result,
                           outcome, queues, tasks>>
       ELSE /\ retried' = FALSE
            /\ get_repo_resp' = r.status
            /\ IF r.status = 0
               THEN /\ outcome' = Raise("TransportError", 500) /\ pc' = "raised"
                    /\ UNCHANGED <<final_repo_name, fast_result, queues, calls, tasks>>
               ELSE IF r.status = 200
               THEN Populate(calls, w)
               ELSE /\ calls' = Append(calls, Call("create_repo"))
                    /\ pc' = "create"
                    /\ UNCHANGED <<final_repo_name, fast_result, outcome, queues, tasks>>
    /\ UNCHANGED <<req, fork_resp, create_resp, fork_ok, created_repo, is_empty, created,
                   deleted, cancelled, stream, published, auxVars>>

CreateResps == {R(201, {}), BadCredentials, R(403, {}), R(422, {}), R(429, {"rate limit"}), Raised}

CreateResp(r, w) ==
    /\ pc = "create" /\ Resumable
    /\ IF IsBadCredentials(r) /\ ~retried
       THEN /\ retried' = TRUE
            /\ UNCHANGED <<calls, pc, create_resp, created_repo, created, final_repo_name,
                           fast_result, outcome, queues, tasks>>
       ELSE /\ retried' = FALSE
            /\ create_resp' = r.status
            /\ IF r.status = 0
               THEN /\ outcome' = Raise("TransportError", 500) /\ pc' = "raised"
                    /\ UNCHANGED <<created_repo, created, final_repo_name, fast_result,
                                   queues, calls, tasks>>
               ELSE IF r.status # 201
               THEN /\ outcome' = Raise("HTTPException", r.status) /\ pc' = "raised"
                    /\ UNCHANGED <<created_repo, created, final_repo_name, fast_result,
                                   queues, calls, tasks>>
               ELSE /\ created_repo' = TRUE
                    /\ created' = <<target_owner, desired_repo_name>>
                    /\ Populate(calls, w)
    /\ UNCHANGED <<req, fork_resp, get_repo_resp, fork_ok, is_empty, deleted, cancelled,
                   stream, published, auxVars>>

\* a publish task made by asyncio.create_task gets its turn
RunTask ==
    /\ tasks # << >>
    /\ queues' = publish(queues, progress_job, Head(tasks).event, Head(tasks).data)
    /\ tasks' = Tail(tasks)
    /\ UNCHANGED <<req, pc, retried, fork_resp, create_resp, get_repo_resp, fork_ok, created_repo, final_repo_name,
                   fast_result, is_empty, created, deleted,
                   outcome, calls, cancelled, stream, published, auxVars>>

\* line 319 (asyncio.sleep(3)) ends; _repo_is_empty sends its first request
SleepDone ==
    /\ pc = "sleep" /\ Resumable
    /\ calls' = Append(calls, Call("probe_contents"))
    /\ pc' = "probe_contents"
    /\ UNCHANGED <<req, retried, fork_resp, create_resp, get_repo_resp, fork_ok, created_repo, final_repo_name,
                   fast_result, is_empty, created, deleted, outcome,
                   tasks, queues, cancelled, stream, published, auxVars>>

repository_url == <<GitHubHost, target_owner, final_repo_name>>

\* lines 377-391: the empty-repository outcome
ReturnManual ==
    /\ outcome' = manual_fork_response
    /\ queues' = Pub(queues, "done", PartialData)
    /\ pc' = "returned"

\* WriteAgentsAndDispatch with the session request sent before the write
DispatchThenWriteAgents(cf) ==
    IF cf = "raised"
    THEN /\ queues' = Pub(queues, "write-agents", NoData)
         /\ calls' = Append(calls, Call("write_agents"))
         /\ outcome' = Raise("TransportError", 500)
         /\ pc' = "raised"
         /\ UNCHANGED deleted
    ELSE /\ queues' = Pub(Pub(queues, "write-agents", NoData), "agent-start", NoData)
         /\ calls' = calls \o <<Call("create_session"), Call("write_agents")>>
         /\ pc' = "dispatch"
         /\ UNCHANGED <<outcome, deleted>>

\* lines 393-456: agents.md is written, then the session request is sent
WriteAgentsAndDispatch(cf) ==
    IF cf = "raised"
    THEN /\ queues' = Pub(queues, "write-agents", NoData)
         /\ calls' = Append(calls, Call("write_agents"))
         /\ outcome' = Raise("TransportError", 500)
         /\ pc' = "raised"
         /\ UNCHANGED deleted
    ELSE /\ queues' = Pub(Pub(queues, "write-agents", NoData), "agent-start", NoData)
         /\ calls' = calls \o <<Call("write_agents"), Call("create_session")>>
         /\ pc' = "dispatch"
         /\ UNCHANGED <<outcome, deleted>>

\* AfterProbe without the cleanup of line 360-376
AfterProbeKeepsRepo(empty, cf) ==
    /\ is_empty' = IF empty THEN "yes" ELSE "no"
    /\ IF empty
       THEN ReturnManual /\ UNCHANGED <<calls, deleted>>
       ELSE WriteAgentsAndDispatch(cf)

\* AfterProbe without the `if created_repo` of line 360
AfterProbeDeletesAny(empty, cf) ==
    /\ is_empty' = IF empty THEN "yes" ELSE "no"
    /\ IF empty
       THEN /\ calls' = Append(calls, Call("delete_repo"))
            /\ deleted' = <<target_owner, final_repo_name>>
            /\ pc' = "delete"
            /\ UNCHANGED <<outcome, queues>>
       ELSE WriteAgentsAndDispatch(cf)

\* AfterProbe without the `if await _repo_is_empty(...)` of line 358
AfterProbeIgnoresAnswer(empty, cf) ==
    /\ is_empty' = IF empty THEN "yes" ELSE "no"
    /\ WriteAgentsAndDispatch(cf)

\* lines 358-360 and 393-462 once _repo_is_empty has answered
AfterProbe(empty, cf) ==
    /\ is_empty' = IF empty THEN "yes" ELSE "no"
    /\ IF empty
       THEN IF created_repo
            THEN /\ calls' = Append(calls, Call("delete_repo"))
                 /\ deleted' = <<target_owner, final_repo_name>>
                 /\ pc' = "delete"
                 /\ UNCHANGED <<outcome, queues>>
            ELSE ReturnManual /\ UNCHANGED <<calls, deleted>>
       ELSE WriteAgentsAndDispatch(cf)

ContentsResps ==
    {R(404, {}), R(200, {"empty list"}), R(200, {"entries"}), R(200, {"not json"}),
     BadCredentials, R(403, {}), Raised}

\* _repo_is_empty, lines 322-345
ProbeContentsResp(r, cf) ==
    /\ pc = "probe_contents" /\ Resumable
    /\ cf \in CreateFileResults
    /\ IF IsBadCredentials(r) /\ ~retried
       THEN /\ retried' = TRUE
            /\ UNCHANGED <<calls, pc, is_empty, deleted, outcome, queues>>
       ELSE /\ retried' = FALSE
            /\ IF r.status = 0 THEN AfterProbe(FALSE, cf)
               ELSE IF r.status = 404 THEN AfterProbe(TRUE, cf)
               ELSE IF r.status = 200 THEN AfterProbe("empty list" \in r.text, cf)
               ELSE /\ calls' = Append(calls, Call("probe_meta"))
                    /\ pc' = "probe_meta"
                    /\ UNCHANGED <<is_empty, deleted, outcome, queues>>
    /\ UNCHANGED <<req, fork_resp, create_resp, get_repo_resp, fork_ok, created_repo, final_repo_name, fast_result,
                   created, tasks, cancelled, stream, published, auxVars>>

MetaResps == {R(200, {"size 0"}), R(200, {"size 7"}), R(404, {}), Raised}

\* _repo_is_empty, lines 346-356
ProbeMetaResp(r, cf) ==
    /\ pc = "probe_meta" /\ Resumable
    /\ cf \in CreateFileResults
    /\ AfterProbe(r.status = 200 /\ "size 0" \in r.text, cf)
    /\ UNCHANGED <<req, retried, fork_resp, create_resp, get_repo_resp, fork_ok, created_repo, final_repo_name,
                   fast_result, created, tasks, cancelled, stream, published, auxVars>>

DeleteResps == {R(204, {}), BadCredentials, R(403, {}), R(404, {}), Raised}

\* lines 361-391
DeleteResp(r) ==
    /\ pc = "delete" /\ Resumable
    /\ IF IsBadCredentials(r) /\ ~retried
       THEN /\ retried' = TRUE
            /\ UNCHANGED <<calls, pc, outcome, queues>>
       ELSE /\ retried' = FALSE
            /\ ReturnManual
            /\ UNCHANGED calls
    /\ UNCHANGED <<req, fork_resp, create_resp, get_repo_resp, fork_ok, created_repo, final_repo_name, fast_result,
                   is_empty, created, deleted, tasks, cancelled, stream, published, auxVars>>

\* ----------------------------------------------------------- dispatcher
PromptLimit == 29000
TruncateTo == 28000
\* length of "...\n\n[Content truncated due to Devin API length limits]"
MarkerLen == 55
\* length of the fixed text of the prompt (the f-string without its fields,
\* stripped); the same text in both entry points
TemplateLen == 359

\* a customization: who it is for, and the total length of the values the
\* prompt interpolates (title, item type, the seven fields, repository URL)
Customizations == [id : {"acme", "globex"}, len : {0, 28641, 28642, 40000}]
Repositories == {<<GitHubHost, "alice", "template-customer">>,
                 <<GitHubHost, "acme", "template-acme">>}

\* the f-string of lines 412-435 and of lines 644-666
RawPrompt(c, url) ==
    [customization |-> c.id, url |-> url, len |-> TemplateLen + c.len, marker |-> FALSE]

\* lines 438-441
Truncated(p) ==
    IF p.len > PromptLimit
    THEN [p EXCEPT !.len = TruncateTo + MarkerLen, !.marker = TRUE]
    ELSE p

AssignPrompt(c, url) == Truncated(RawPrompt(c, url))
\* resume_on_existing_repo sends the f-string as it is
ResumePrompt(c, url) == RawPrompt(c, url)

\* devin_payload without "idempotent": True
devin_payload_plain(p) == [prompt |-> p, idempotent |-> FALSE]

\* lines 443 and 668
devin_payload(p) == [prompt |-> p, idempotent |-> TRUE]

\* lines 511-530: the status assign_to_swe_agent raises for a session answer
\* other than 200.  The HTTPException(401), (429) and (500) of lines 512-524
\* are raised inside the try and caught by `except Exception` (line 528).
AssignDispatchError(r) == IF r = Raised THEN 504 ELSE 500

\* ResumeDispatchError with one class for every failure
ResumeDispatchErrorFlat(r) == 500

\* lines 680-686: the status resume_on_existing_repo raises (no try around
\* the request: an exception of the client ends the request with a 500)
ResumeDispatchError(r) ==
    IF r.status = 401 THEN 401 ELSE IF r.status = 429 THEN 429 ELSE 500

SessionResps == {R(200, {}), R(401, {}), R(429, {}), R(500, {}), Raised, R(0, {"connect error"})}

SuccessResult ==
    [NoOutcome EXCEPT !.kind = "returned", !.status = "success",
                      !.repository_url = repository_url]

\* lines 457-530.  The HTTPException raised for 401 and 429 inside the try is
\* an Exception, so the `except Exception` of line 528 turns it into a 500.
DispatchResp(r) ==
    /\ pc = "dispatch" /\ Resumable
    /\ IF r.status = 200
       THEN /\ outcome' = SuccessResult
            /\ calls' = Append(calls, Call("get_user"))
            /\ pc' = "store"
       ELSE /\ outcome' = Raise("HTTPException", AssignDispatchError(r))
            /\ pc' = "raised"
            /\ UNCHANGED calls
    /\ UNCHANGED <<req, retried, fork_resp, create_resp, get_repo_resp, fork_ok, created_repo, final_repo_name,
                   fast_result, is_empty, created, deleted, tasks,
                   queues, cancelled, stream, published, auxVars>>

\* lines 486-510: storing the assignment is best effort, then `done`
StoreResp(r) ==
    /\ pc = "store" /\ Resumable
    /\ queues' = Pub(queues, "done",
                     [status |-> outcome.status, repository_url |-> outcome.repository_url])
    /\ pc' = "returned"
    /\ UNCHANGED <<req, retried, fork_resp, create_resp, get_repo_resp, fork_ok, created_repo, final_repo_name,
                   fast_result, is_empty, created, deleted, outcome,
                   calls, tasks, cancelled, stream, published, auxVars>>

\* ------------------------------------------------- ProgressBroker.stream
IdleStream == [state |-> "idle", job |-> "", frames |-> << >>, keepalives |-> 0]
CancelledFrame == [event |-> "done", data |-> [status |-> "cancelled", repository_url |-> NoUrl]]

\* GET /progress/{job_id}/stream: the generator starts, line 22
StreamOpen(s, j) ==
    /\ stream[s].state = "idle"
    /\ queues' = get_queue(queues, j)
    /\ stream' = [stream EXCEPT ![s] = [IdleStream EXCEPT !.state = "check", !.job = j]]
    /\ UNCHANGED <<jobVars, cancelled, published, auxVars>>

\* StreamCheck without the test of line 26
StreamCheckIgnoresCancel(s) ==
    /\ stream[s].state = "check"
    /\ stream' = [stream EXCEPT ![s] = [@ EXCEPT !.state = "waiting"]]
    /\ UNCHANGED <<jobVars, queues, cancelled, published, auxVars>>

\* top of the loop, lines 25-29: the cancelled frame, or wait for an event
StreamCheck(s) ==
    /\ stream[s].state = "check"
    /\ stream' = [stream EXCEPT ![s] =
                    IF stream[s].job \in cancelled
                    THEN [@ EXCEPT !.state = "ended", !.frames = Append(@, CancelledFrame)]
                    ELSE [@ EXCEPT !.state = "waiting"]]
    /\ UNCHANGED <<jobVars, queues, cancelled, published, auxVars>>

\* StreamGet without the `break` of lines 32-33
StreamGetNoBreak(s) ==
    /\ stream[s].state = "waiting"
    /\ queues[stream[s].job] # << >>
    /\ LET item == Head(queues[stream[s].job])
       IN /\ queues' = [queues EXCEPT ![stream[s].job] = Tail(@)]
          /\ stream' = [stream EXCEPT ![s] =
                          [@ EXCEPT !.frames = Append(@, item), !.state = "check"]]
    /\ UNCHANGED <<jobVars, cancelled, published, auxVars>>

\* lines 29-34: queue.get() returns the oldest event, which is yielded
StreamGet(s) ==
    /\ stream[s].state = "waiting"
    /\ queues[stream[s].job] # << >>
    /\ LET item == Head(queues[stream[s].job])
       IN /\ queues' = [queues EXCEPT ![stream[s].job] = Tail(@)]
          /\ stream' = [stream EXCEPT ![s] =
                          [@ EXCEPT !.frames = Append(@, item),
                                    !.state = IF item.event = "done"
                                              THEN "ended" ELSE "check"]]
    /\ UNCHANGED <<jobVars, cancelled, published, auxVars>>

\* StreamKeepalive with the generator ending on the timeout
StreamKeepaliveCloses(s) ==
    /\ stream[s].state = "waiting"
    /\ queues[stream[s].job] = << >>
    /\ stream[s].keepalives < MaxKeepalive
    /\ stream' = [stream EXCEPT ![s] = [@ EXCEPT !.keepalives = @ + 1, !.state = "ended"]]
    /\ UNCHANGED <<jobVars, queues, cancelled, published, auxVars>>

\* lines 35-37: nothing arrived within the keepalive interval
StreamKeepalive(s) ==
    /\ stream[s].state = "waiting"
    /\ queues[stream[s].job] = << >>
    /\ stream[s].keepalives < MaxKeepalive
    /\ stream' = [stream EXCEPT ![s] = [@ EXCEPT !.keepalives = @ + 1, !.state = "check"]]
    /\ UNCHANGED <<jobVars, queues, cancelled, published, auxVars>>

\* POST /progress/{job_id}/cancel
cancel(j) ==
    /\ cancelled' = cancelled \cup {j}
    /\ UNCHANGED <<jobVars, queues, stream, published, auxVars>>

\* ------------------------------------------------------- specification
NoDispatch ==
    [entry |-> "-", customization |-> [id |-> "-", len |-> 0], url |-> NoUrl,
     run |-> << >>, requests |-> << >>]

BaseInit ==
    /\ req \in Requests
    /\ pc = "idle"
    /\ retried = FALSE
    /\ fork_resp = 0
    /\ create_resp = 0
    /\ get_repo_resp = 0
    /\ fork_ok = FALSE
    /\ fast_result = [success |-> FALSE, error |-> {"not run"}]
    /\ is_empty = "?"
    /\ created = NoUrl
    /\ deleted = NoUrl
    /\ created_repo = FALSE
    /\ final_repo_name = desired_repo_name
    /\ outcome = NoOutcome
    /\ calls = << >>
    /\ tasks = << >>
    /\ queues = [j \in {} |-> << >>]
    /\ cancelled = {}
    /\ stream = [s \in Subscribers |-> IdleStream]
    /\ published = [j \in JobIds |-> << >>]

NoCopy ==
    [state |-> "-", n |-> 0, i |-> 1, target0 |-> {}, target |-> << >>,
     writes |-> << >>, copied |-> 0, cbs |-> 0, success |-> FALSE]

NoResponse == R(0, {"not sent"})

\* no call of fast_import_from_tar on its own
NoImport == [state |-> "-", world |-> World(<< >>, 0), result |-> ImportResult(FALSE, {"not run"}, << >>, << >>, 0, 0)]

\* the specs routes at rest: in-memory storage, nothing stored, nothing answered
SpecIds == {"s1", "s2"}
NoSpec == [id |-> "none"]
NoKit ==
    /\ container = FALSE
    /\ others = 0
    /\ specs = [i \in SpecIds |-> NoSpec]
    /\ kit_resp = [n |-> 0, op |-> "none", id |-> "none", status |-> 0, spec |-> NoSpec]

Init == BaseInit /\ disp = NoDispatch /\ copy = NoCopy /\ contents_resp = NoResponse /\ NoKit
        /\ imp = NoImport

\* the import runs only after the answer `status`: any other answer needs
\* no world
WorldsAfter(r, status) ==
    IF r.status = status
    THEN Worlds(IF should_cancel THEN 1 ELSE 0)
    ELSE {World(<< >>, 0)}

Next ==
    \/ Start
    \/ \E r \in UserResps : UserResp(r)
    \/ \E r \in ForkResps : ForkResp(r)
    \/ \E r \in RenameResps : RenameResp(r)
    \/ pc = "exists" /\ \E r \in ExistsResps : \E w \in WorldsAfter(r, 200) : ExistsResp(r, w)
    \/ pc = "create" /\ \E r \in CreateResps : \E w \in WorldsAfter(r, 201) : CreateResp(r, w)
    \/ RunTask
    \/ SleepDone
    \/ \E r \in ContentsResps, cf \in CreateFileResults : ProbeContentsResp(r, cf)
    \/ \E r \in MetaResps, cf \in CreateFileResults : ProbeMetaResp(r, cf)
    \/ \E r \in DeleteResps : DeleteResp(r)
    \/ \E r \in SessionResps : DispatchResp(r)
    \/ \E r \in UserResps : StoreResp(r)
    \/ cancel("j1")

Spec == Init /\ [][Next]_vars

\* ---------------------------------------- specification of the broker
\* The broker alone: some coroutine of the process calls publish (the routes
\* and the run above are its callers), clients open streams and cancel.
EventNames == {"copy-progress", "done"}

\* the subscribers whose generator is inside the loop of stream() for job j
Live(j) == {s \in Subscribers : stream[s].job = j /\ stream[s].state \in {"check", "waiting"}}

\* await broker.publish(job_id, event, data), lines 16-19
PublishEvent(j, e) ==
    /\ Len(published[j]) < MaxPublished
    /\ queues' = publish(queues, j, e, NoData)
    /\ published' = [published EXCEPT ![j] =
                        Append(@, [event |-> e, data |-> NoData, live |-> Live(j)])]
    /\ UNCHANGED <<jobVars, cancelled, stream, auxVars>>

StreamInit ==
    /\ Init
    /\ req = [prefer_import |-> FALSE, owner |-> "", repo |-> "", progress_job |-> "j1"]

StreamNext ==
    \/ \E e \in EventNames : PublishEvent("j1", e)
    \/ \E s \in Subscribers : StreamOpen(s, "j1")
    \/ \E s \in Subscribers : StreamCheck(s)
    \/ \E s \in Subscribers : StreamGet(s)
    \/ \E s \in Subscribers : StreamKeepalive(s)
    \/ cancel("j1")

StreamSpec == StreamInit /\ [][StreamNext]_vars

RECURSIVE SumLen(_, _)
SumLen(h, js) ==
    IF js = {} THEN 0
    ELSE LET j == CHOOSE x \in js : TRUE IN Len(h[j]) + SumLen(h, js \ {j})

\* the broker with concurrently running jobs: every operation for every job
\* (the jobs together publish MaxPublished events)
JobsNext ==
    \/ /\ SumLen(published, JobIds) < MaxPublished
       /\ \E j \in JobIds, e \in EventNames : PublishEvent(j, e)
    \/ \E s \in Subscribers, j \in JobIds : StreamOpen(s, j)
    \/ \E s \in Subscribers : StreamCheck(s)
    \/ \E s \in Subscribers : StreamGet(s)
    \/ \E s \in Subscribers : StreamKeepalive(s)
    \/ \E j \in JobIds : cancel(j)

JobsSpec == StreamInit /\ [][JobsNext]_vars

\* ------------------------------------- specification of the dispatcher
\* The last part of both entry points (lines 411-530 and 643-686): the prompt
\* is built, the session request is sent and its answer is reported.  Two
\* requests to one entry point with the same inputs are in progress.
Runs == 1..2
ReadyRun == [state |-> "ready", resp |-> 0, reported |-> 0]

DispatchInit ==
    /\ BaseInit
    /\ req = [prefer_import |-> FALSE, owner |-> "", repo |-> "", progress_job |-> ""]
    /\ \E e \in {"assign", "resume"}, c \in Customizations, u \in Repositories :
          disp = [entry |-> e, customization |-> c, url |-> u,
                  run |-> [k \in Runs |-> ReadyRun], requests |-> << >>]
    /\ copy = NoCopy
    /\ contents_resp = NoResponse
    /\ NoKit
    /\ imp = NoImport

Prompt ==
    IF disp.entry = "assign"
    THEN AssignPrompt(disp.customization, disp.url)
    ELSE ResumePrompt(disp.customization, disp.url)

\* lines 443-462 / 668-679: client.post(.../v1/sessions, json=devin_payload)
DispatchSend(k) ==
    /\ disp.run[k].state = "ready"
    /\ disp' = [disp EXCEPT !.run[k].state = "sent",
                            !.requests = Append(@, devin_payload(Prompt))]
    /\ UNCHANGED <<jobVars, brokerVars, copy, contents_resp, kitVars, imp>>

\* lines 464-530 / 680-697: the answer is turned into a result or an error
DispatchAnswer(k, r) ==
    /\ disp.run[k].state = "sent"
    /\ disp' = [disp EXCEPT !.run[k] =
                    [state |-> "done", resp |-> r.status,
                     reported |-> IF r.status = 200 THEN 200
                                  ELSE IF disp.entry = "assign"
                                       THEN AssignDispatchError(r)
                                       ELSE ResumeDispatchError(r)]]
    /\ UNCHANGED <<jobVars, brokerVars, copy, contents_resp, kitVars, imp>>

DispatchNext ==
    \/ \E k \in Runs : DispatchSend(k)
    \/ \E k \in Runs, r \in SessionResps : DispatchAnswer(k, r)

DispatchSpec == DispatchInit /\ [][DispatchNext]_vars

\* ------------------- specification of GitHubService.copy_into_existing_repo
\* One call.  The source listing has the files 1..n (directories only add
\* listings); the target repository has the files of target0 at the same
\* paths before the call.  copy.target maps each path the target has to
\* whose content it holds.
CopyInit ==
    /\ BaseInit
    /\ req = [prefer_import |-> FALSE, owner |-> "", repo |-> "", progress_job |-> ""]
    /\ disp = NoDispatch
    /\ contents_resp = NoResponse
    /\ NoKit
    /\ imp = NoImport
    /\ \E n \in 0..MaxFiles, t \in SUBSET (1..MaxFiles) :
          copy = [NoCopy EXCEPT !.state = "start", !.n = n, !.target0 = t,
                                !.target = [p \in t |-> "theirs"]]

\* lines 236-256: the repositories and the listing are fetched; an exception
\* goes to the outer handler of line 289
CopyStart(ok) ==
    /\ copy.state = "start"
    /\ copy' = IF ok THEN [copy EXCEPT !.state = "loop"]
               ELSE [copy EXCEPT !.state = "returned", !.success = FALSE]
    /\ UNCHANGED <<jobVars, brokerVars, disp, contents_resp, kitVars, imp>>

\* GitHub's answer to target.create_file(path, ...), which sends no sha: a
\* path that exists is refused (422), so the call raises
Created(t, p) == IF p \in DOMAIN t THEN t ELSE t @@ (p :> "copied")

\* CopyItem without the `continue` of line 270
CopyItemNoSkip(c, probe, cf) ==
    LET p == copy.i
    IN /\ copy.state = "loop" /\ copy.i <= copy.n
       /\ probe = "found" => p \in DOMAIN copy.target
       /\ probe = "absent" => p \notin DOMAIN copy.target
       /\ copy' =
            IF c THEN [copy EXCEPT !.state = "returned", !.success = TRUE]
            ELSE LET w == Append(copy.writes, [path |-> p, probe |-> probe])
                 IN IF cf = "ok" /\ p \notin DOMAIN copy.target
                    THEN [copy EXCEPT !.i = @ + 1, !.writes = w,
                                      !.target = Created(@, p),
                                      !.copied = @ + 1, !.cbs = @ + 1]
                    ELSE [copy EXCEPT !.i = @ + 1, !.writes = w]
       /\ UNCHANGED <<jobVars, brokerVars, disp, contents_resp, kitVars, imp>>

\* one turn of the loop of copy_contents, lines 260-288, for the file copy.i:
\* c is the answer of should_cancel(), probe that of target.get_contents
\* (any exception counts as "the file is not there"), cf that of create_file
CopyItem(c, probe, cf) ==
    LET p == copy.i
    IN /\ copy.state = "loop" /\ copy.i <= copy.n
       /\ probe = "found" => p \in DOMAIN copy.target
       /\ probe = "absent" => p \notin DOMAIN copy.target
       /\ copy' =
            IF c THEN [copy EXCEPT !.state = "returned", !.success = TRUE]
            ELSE IF probe = "found" THEN [copy EXCEPT !.i = @ + 1]
            ELSE LET w == Append(copy.writes, [path |-> p, probe |-> probe])
                 IN IF cf = "ok" /\ p \notin DOMAIN copy.target
                    THEN [copy EXCEPT !.i = @ + 1, !.writes = w,
                                      !.target = Created(@, p),
                                      !.copied = @ + 1, !.cbs = @ + 1]
                    ELSE [copy EXCEPT !.i = @ + 1, !.writes = w]
       /\ UNCHANGED <<jobVars, brokerVars, disp, contents_resp, kitVars, imp>>

\* line 288: the listing is exhausted
CopyReturn ==
    /\ copy.state = "loop" /\ copy.i > copy.n
    /\ copy' = [copy EXCEPT !.state = "returned", !.success = TRUE]
    /\ UNCHANGED <<jobVars, brokerVars, disp, contents_resp, kitVars, imp>>

CopyNext ==
    \/ \E ok \in BOOLEAN : CopyStart(ok)
    \/ \E c \in BOOLEAN, probe \in {"found", "absent", "raised"}, cf \in {"ok", "raised"} :
          CopyItem(c, probe, cf)
    \/ CopyReturn

CopySpec == CopyInit /\ [][CopyNext]_vars

\* ----------------------------- specification of resume_on_existing_repo
\* POST /templates/{id}/resume for the agent "devin", with a template that is
\* found and a GitHub token in the request.  owner and repo of lines 590-599
\* are target_owner and desired_repo_name.  The requests carry the header
\* "token" only: nothing is repeated after 401.
resumeFixed ==
    <<req, retried, fork_resp, create_resp, get_repo_resp, fork_ok, created_repo, final_repo_name,
      fast_result, is_empty, created, deleted, tasks, cancelled, stream, published,
      disp, copy, kitVars, imp>>

\* agents.py 44-46 and lines 581-585: `start` is published, GET /user is sent
ResumeStart ==
    /\ pc = "idle"
    /\ queues' = Pub(queues, "start", NoData)
    /\ calls' = Append(calls, Call("get_user"))
    /\ pc' = "r_user"
    /\ UNCHANGED <<outcome, contents_resp, resumeFixed>>

\* lines 586-607
ResumeUserResp(r) ==
    /\ pc = "r_user"
    /\ IF r.status = 0
       THEN /\ outcome' = Raise("TransportError", 500) /\ pc' = "raised"
            /\ UNCHANGED calls
       ELSE IF r.status # 200
       THEN /\ outcome' = Raise("HTTPException", r.status) /\ pc' = "raised"
            /\ UNCHANGED calls
       ELSE /\ calls' = Append(calls, Call("get_repo"))
            /\ pc' = "r_repo"
            /\ UNCHANGED outcome
    /\ UNCHANGED <<queues, contents_resp, resumeFixed>>

\* lines 608-616
ResumeRepoResp(r) ==
    /\ pc = "r_repo"
    /\ IF r.status = 0
       THEN /\ outcome' = Raise("TransportError", 500) /\ pc' = "raised"
            /\ UNCHANGED calls
       ELSE IF r.status # 200
       THEN /\ outcome' = Raise("HTTPException", 404) /\ pc' = "raised"
            /\ UNCHANGED calls
       ELSE /\ calls' = Append(calls, Call("probe_contents"))
            /\ pc' = "r_contents"
            /\ UNCHANGED outcome
    /\ UNCHANGED <<queues, contents_resp, resumeFixed>>

\* lines 627-679: agents.md is written (a failure is logged), the prompt is
\* built and the session request is sent
ResumeWrite(r, cf) ==
    IF cf = "raised"
    THEN /\ queues' = Pub(queues, "write-agents", NoData)
         /\ calls' = Append(calls, Call("write_agents"))
         /\ outcome' = Raise("TransportError", 500)
         /\ pc' = "raised"
    ELSE /\ queues' = Pub(Pub(queues, "write-agents", NoData), "agent-start", NoData)
         /\ calls' = calls \o <<Call("write_agents"), Call("create_session")>>
         /\ pc' = "r_dispatch"
         /\ UNCHANGED outcome

\* lines 618-626: only a 404 answer counts as "the repository is empty"
ResumeContentsResp(r, cf) ==
    /\ pc = "r_contents"
    /\ contents_resp' = r
    /\ IF r.status = 0
       THEN /\ outcome' = Raise("TransportError", 500) /\ pc' = "raised"
            /\ UNCHANGED <<queues, calls>>
       ELSE IF r.status = 404
       THEN /\ outcome' = Raise("HTTPException", 400) /\ pc' = "raised"
            /\ UNCHANGED <<queues, calls>>
       ELSE ResumeWrite(r, cf)
    /\ UNCHANGED resumeFixed

\* lines 680-697
ResumeDispatchResp(r) ==
    /\ pc = "r_dispatch"
    /\ IF r.status = 200
       THEN /\ outcome' = SuccessResult
            /\ calls' = Append(calls, Call("store_agent_assignment"))
            /\ pc' = "r_store"
       ELSE /\ outcome' = IF r.status = 0 THEN Raise("TransportError", 500)
                          ELSE Raise("HTTPException", ResumeDispatchError(r))
            /\ pc' = "raised"
            /\ UNCHANGED calls
    /\ UNCHANGED <<queues, contents_resp, resumeFixed>>

\* lines 699-715: storing is best effort, then `done` and the result
ResumeStoreDone ==
    /\ pc = "r_store"
    /\ queues' = Pub(queues, "done",
                     [status |-> outcome.status, repository_url |-> outcome.repository_url])
    /\ pc' = "returned"
    /\ UNCHANGED <<outcome, calls, contents_resp, resumeFixed>>

ResumeNext ==
    \/ ResumeStart
    \/ \E r \in UserResps \cup {BadCredentials} : ResumeUserResp(r)
    \/ \E r \in ExistsResps : ResumeRepoResp(r)
    \/ \E r \in ContentsResps, cf \in CreateFileResults : ResumeContentsResp(r, cf)
    \/ \E r \in SessionResps : ResumeDispatchResp(r)
    \/ ResumeStoreDone

ResumeSpec == Init /\ [][ResumeNext]_vars

\* ------------------------------ specification of the spec-kit phase routes
\* api/routes/specs.py: create_spec, specify_phase, plan_phase, tasks_phase on
\* SpecService.  The handlers are `async def` without an await (the OpenAI
\* client is the synchronous one), so each request is one action.  Strings
\* the code computes with are sequences of characters.
Titles == {<<"M", "y", " ", "a", "p", "p">>, <<"!">>}
Requirements == {"As a user, I need a feature.", "Initial content"}
\* how many specs with a feature number the store holds before the first request
StoredBefore == {0, 997}
\* outcomes of the storage calls of one request: the route's read_item, the
\* service's read_item, query_items and replace_item / create_item
Outcomes == [read : BOOLEAN, read2 : BOOLEAN, query : BOOLEAN, write : BOOLEAN]

\* str(n) of a natural number
RECURSIVE str(_)
str(n) ==
    LET d == <<"0", "1", "2", "3", "4", "5", "6", "7", "8", "9">>
    IN IF n < 10 THEN <<d[n + 1]>> ELSE Append(str(n \div 10), d[(n % 10) + 1])

\* str.zfill(width): zeros on the left up to the width, never a cut
RECURSIVE zfill(_, _)
zfill(t, width) == IF Len(t) >= width THEN t ELSE zfill(<<"0">> \o t, width)

\* TONUMBER of a feature number
RECURSIVE ToNumber(_)
ToNumber(t) ==
    IF t = << >> THEN 0
    ELSE LET c == t[Len(t)]
             v == CHOOSE k \in 0..9 : str(k) = <<c>>
         IN 10 * ToNumber(SubSeq(t, 1, Len(t) - 1)) + v

\* str.strip('-')
RECURSIVE strip(_)
strip(t) ==
    IF t = << >> THEN t
    ELSE IF Head(t) = "-" THEN strip(Tail(t))
    ELSE IF t[Len(t)] = "-" THEN strip(SubSeq(t, 1, Len(t) - 1))
    ELSE t

\* specs.py 631-632: lower case, every character outside [a-zA-Z0-9-] becomes
\* a hyphen, hyphens at both ends go, at most 50 characters stay
slugify(text) ==
    LET lower(c) == IF c = "M" THEN "m" ELSE c
        keep(c) == c \in {"m", "y", "a", "p", "-"}
        subbed == [i \in 1..Len(text) |-> IF keep(lower(text[i])) THEN lower(text[i]) ELSE "-"]
        t == strip(subbed)
    IN SubSeq(t, 1, IF Len(t) < 50 THEN Len(t) ELSE 50)

\* spec_service.py 90-104: None when the spec is absent or read_item raised
get_spec_by_id(id, read_ok) ==
    IF container /\ ~read_ok THEN NoSpec ELSE specs[id]

\* specs.py 635-636 over spec_service.py 74-89: the stored specs that carry a
\* feature number; an empty list when the query raised
Featured(query_ok) ==
    IF container /\ ~query_ok THEN 0
    ELSE others + Cardinality({i \in SpecIds : specs[i] # NoSpec /\ specs[i].feature_number # << >>})

\* spec_service.py 267-280
generate_feature_number(query_ok) ==
    LET nums == {ToNumber(specs[i].feature_number) : i \in {k \in SpecIds : specs[k] # NoSpec}}
                    \cup {others}
        max_num == CHOOSE m \in nums : \A k \in nums : k <= m
    IN IF ~container \/ ~query_ok THEN <<"0", "0", "1">> ELSE zfill(str(max_num + 1), 3)

\* what the store holds after replace_item / create_item of spec sp: a write
\* that raised is logged and leaves the store as it was
Written(id, sp, write_ok) ==
    IF container /\ ~write_ok THEN specs ELSE [specs EXCEPT ![id] = sp]

\* spec_service.py 214-265: the updated spec (None for an absent one) and the store
update_spec_phase(id, phase, kwargs, io) ==
    LET current_spec == get_spec_by_id(id, io.read2)
        updated_spec ==
            [f \in DOMAIN current_spec |->
                IF f = "phase" THEN phase
                ELSE IF f = "version" THEN current_spec.version + 1
                ELSE IF f \in DOMAIN kwargs THEN kwargs[f]
                ELSE current_spec[f]]
    IN IF current_spec = NoSpec
       THEN [spec |-> NoSpec, store |-> specs]
       ELSE [spec |-> updated_spec, store |-> Written(id, updated_spec, io.write)]

\* the answer of a route and the store it leaves; `except Exception` of the
\* phase routes turns every HTTPException raised inside the try into a 500
Answer(op, id, status, sp, store) ==
    /\ kit_resp.n < MaxRequests
    /\ kit_resp' = [n |-> kit_resp.n + 1, op |-> op, id |-> id, status |-> status, spec |-> sp]
    /\ specs' = store
    /\ UNCHANGED <<jobVars, brokerVars, disp, copy, contents_resp, container, others, imp>>

\* specs.py 65-68 and spec_service.py 122-164: the id is a fresh uuid4
create_spec(title, content, io) ==
    /\ \E i \in SpecIds : specs[i] = NoSpec
    /\ LET spec_id == CHOOSE i \in SpecIds : specs[i] = NoSpec
           feature_number == generate_feature_number(io.query)
           new_spec == [id |-> spec_id, title |-> title, phase |-> "specification",
                        specification |-> content, plan |-> "None", tasks |-> "None",
                        branch_name |-> feature_number \o <<"-">> \o slugify(title),
                        feature_number |-> feature_number, version |-> 1]
       IN Answer("create", spec_id, 200, new_spec, Written(spec_id, new_spec, io.write))

\* specs.py 621-660
specify_phase(spec_id, requirements, io) ==
    LET spec == get_spec_by_id(spec_id, io.read)
        feature_num == zfill(str(Featured(io.query) + 1), 3)
        branch_name == feature_num \o <<"-">> \o slugify(spec.title)
        u == update_spec_phase(spec_id, "specification",
                               [specification |-> requirements, branch_name |-> branch_name,
                                feature_number |-> feature_num], io)
    IN IF spec = NoSpec \/ u.spec = NoSpec
       THEN Answer("specify", spec_id, 500, NoSpec, specs)
       ELSE Answer("specify", spec_id, 200, u.spec, u.store)

\* specs.py 662-742; ai: what client.responses.create gave
plan_phase(spec_id, ai, io) ==
    LET spec == get_spec_by_id(spec_id, io.read)
        u == update_spec_phase(spec_id, "plan", [plan |-> ai], io)
    IN IF spec = NoSpec \/ spec.phase # "specification" \/ ai = "raised"
       THEN Answer("plan", spec_id, 500, NoSpec, specs)
       ELSE Answer("plan", spec_id, 200, u.spec, u.store)

\* specs.py 744-871; a reply that is not a JSON list gives the fallback task
tasks_phase(spec_id, ai, io) ==
    LET spec == get_spec_by_id(spec_id, io.read)
        task_list == IF ai = "" THEN "fallback task" ELSE ai
        u == update_spec_phase(spec_id, "tasks", [tasks |-> task_list], io)
    IN IF spec = NoSpec \/ spec.phase # "plan" \/ ai = "raised"
       THEN Answer("tasks", spec_id, 500, NoSpec, specs)
       ELSE Answer("tasks", spec_id, 200, u.spec, u.store)

KitInit ==
    /\ BaseInit
    /\ req = [prefer_import |-> FALSE, owner |-> "", repo |-> "", progress_job |-> ""]
    /\ disp = NoDispatch /\ copy = NoCopy /\ contents_resp = NoResponse /\ imp = NoImport
    /\ container \in BOOLEAN
    /\ others \in StoredBefore
    /\ specs = [i \in SpecIds |-> NoSpec]
    /\ kit_resp = [n |-> 0, op |-> "none", id |-> "none", status |-> 0, spec |-> NoSpec]

\* in-memory storage has no call that can fail
Ios == {o \in Outcomes : ~container => o = [read |-> TRUE, read2 |-> TRUE,
                                             query |-> TRUE, write |-> TRUE]}

\* an outcome is drawn only for the calls the request makes
KitNext ==
    \/ \E io \in Ios, t \in Titles :
          io.read /\ io.read2 /\ create_spec(t, "Initial content", io)
    \/ \E io \in Ios, i \in SpecIds, r \in Requirements : specify_phase(i, r, io)
    \/ \E io \in Ios, i \in SpecIds, ai \in {"raised", "", "text"} :
          io.query /\ plan_phase(i, ai, io)
    \/ \E io \in Ios, i \in SpecIds, ai \in {"raised", "", "text"} :
          io.query /\ tasks_phase(i, ai, io)

KitSpec == KitInit /\ [][KitNext]_vars

\* --------------------- specification of GitHubService.fast_import_from_tar
\* One call of the function with a token (no mock mode), for every world and
\* every check from which should_cancel() answers true: the caller's callable
\* is any callable, the function makes up to MaxMembers + 2 checks.
ImportInit ==
    /\ BaseInit
    /\ req = [prefer_import |-> FALSE, owner |-> "", repo |-> "", progress_job |-> ""]
    /\ disp = NoDispatch /\ copy = NoCopy /\ contents_resp = NoResponse /\ NoKit
    /\ \E cf \in 0..(MaxMembers + 2) : \E w \in Worlds(cf) :
          imp = [NoImport EXCEPT !.state = "called", !.world = w]

\* github_service.py 293-374
ImportCall ==
    /\ imp.state = "called"
    /\ imp' = [imp EXCEPT !.state = "returned", !.result = fast_import_from_tar(imp.world)]
    /\ UNCHANGED <<jobVars, brokerVars, disp, copy, contents_resp, kitVars>>

ImportSpec == ImportInit /\ [][ImportCall]_vars

\* the should_cancel() calls one call of fast_import_from_tar makes: line 313,
\* line 339 for each member reached, line 363 when something was staged
CancelChecks(w) ==
    IF w.meta # OK THEN 0
    ELSE IF ShouldCancel(w, 1) \/ w.tar # OK \/ w.get_repo # OK THEN 1
    ELSE LET st == StageBlobs(w, 1, [checks |-> 1, copied |-> 0, cbs |-> <<0>>,
                                     error |-> OK, writes |-> << >>])
         IN IF st.error # OK \/ st.copied = 0 THEN st.checks ELSE st.checks + 1

\* ================================================================ claims
Ended == pc \in {"returned", "raised"}
Has(name) == \E i \in 1..Len(calls) : calls[i] = name
Count(name) == Cardinality({i \in 1..Len(calls) : calls[i] = name})
Published(event) ==
    /\ progress_job \in DOMAIN queues
    /\ \E i \in 1..Len(queues[progress_job]) : queues[progress_job][i].event = event
IsManualFork ==
    /\ pc = "returned"
    /\ outcome.status = "partial_success"
    /\ outcome.action = "manual_fork_required"
IsMutating(c) ==
    c \in {"fork", "rename", "create_repo", "create_git_blob", "create_git_tree",
           "create_git_commit", "create_git_ref", "legacy_import", "content_copy",
           "delete_repo", "write_agents", "create_session"}
Mutations(cl) == SelectSeq(cl, IsMutating)

\* C1: once a `done` event is in a job's queue, no further event is enqueued
\* for that job, so a `done` event is always the last event of its queue
\* (no stream dequeues under Spec: a queue holds all that was published).
C1_DoneIsLastEvent ==
    \A j \in DOMAIN queues : \A i \in 1..Len(queues[j]) :
        queues[j][i].event = "done" => i = Len(queues[j])

\* C2: once the job is cancelled, a step of the run issues no further
\* mutating external call.
C2_NoMutationAfterCancel ==
    [][(progress_job # "" /\ is_cancelled(cancelled, progress_job))
        => Mutations(calls') = Mutations(calls)]_vars

\* C3: fork answered 403, the repository was created, and the tarball import
\* failed with a 403 error: the run ends in the manual-fork outcome with
\* fork_url https://github.com/<source_owner>/<source_repo>/fork, tries neither
\* the legacy import nor the content copy, and has deleted the created repository.
C3_RateLimitedImportCleansUp ==
    (fork_resp = 403 /\ created_repo /\ fast_result.error = E403 /\ Ended)
        => /\ IsManualFork
           /\ outcome.fork_url = <<"https://github.com", "octo", "template", "fork">>
           /\ ~Has("legacy_import") /\ ~Has("content_copy")
           /\ Has("delete_repo")

\* C4: a strategy reported success, the probe found the repository empty and
\* this run created it: the delete operation is performed exactly once (the
\* repeat of the request after 401 Bad credentials is part of it), the run ends
\* in the manual-fork outcome, and no metadata is written, no session created
\* and no success returned.
C4_EmptyAfterSuccessIsCleanedUp ==
    (created_repo /\ fast_result.success /\ is_empty = "yes")
        => /\ Count("delete_repo") = 1
           /\ pc \in {"delete", "returned"}
           /\ pc = "returned" => IsManualFork
           /\ outcome.status # "success"
           /\ ~Has("create_session") /\ ~Has("write_agents")

C4_Witness ==
    created_repo /\ fast_result.success /\ is_empty = "yes" /\ pc = "returned"

\* C5: a delete request is issued only for the repository this run created
\* with a 201 answer; never after a fork, never for a repository that existed.
C5_DeletesOnlyOwnRepo ==
    /\ Has("delete_repo") <=> deleted # NoUrl
    /\ deleted # NoUrl =>
          /\ created_repo /\ Has("create_repo")
          /\ deleted = created
          /\ ~fork_ok

C5_Witness == deleted # NoUrl /\ pc = "returned"

\* C6: after a successful fork the run calls neither create-repository nor a
\* replication strategy, and it goes on to the emptiness probe: a run whose
\* fork succeeded and whose requests all got an answer has sent the probe
\* by the time it ends.
C6_ForkGoesToProbe ==
    (fork_ok /\ Ended /\ outcome.kind # "TransportError")
        => /\ ~Has("create_repo") /\ ~Has("tarball_import")
           /\ Has("probe_contents")

\* C7: owner alice, repository template-acme, fork and rename succeed: the run
\* ends only by returning success with repository_url
\* https://github.com/alice/template-acme and a published `done`, or because
\* the probe found the repository empty or the session call failed.
C7_ForkScenarioSucceeds ==
    (/\ target_owner = "alice" /\ req.repo = "template-acme"
     /\ fork_ok /\ final_repo_name = "template-acme"
     /\ Ended /\ outcome.kind # "TransportError")
        => \/ /\ outcome.status = "success"
              /\ outcome.repository_url = <<"https://github.com", "alice", "template-acme">>
              /\ calls = <<"get_user", "fork", "rename", "probe_contents",
                           "write_agents", "create_session", "get_user">>
              /\ progress_job # "" => Published("done")
           \/ is_empty = "yes"
           \/ Has("create_session")

\* C8: fork answered 404, the repository was created and the tarball import
\* failed with an error that is no rate limit: the run sends the legacy import
\* request (and goes on from its answer).
C8_LegacyImportFallback ==
    (/\ fork_resp = 404 /\ created_repo /\ Has("tarball_import")
     /\ ~fast_result.success /\ ~IsRateLimitError(fast_result.error)
     /\ Ended)
        => Has("legacy_import")

\* C9: strategies run in the order tarball import, legacy import, content
\* copy, each only after the earlier ones failed, none after a success, and
\* the run fails in replication only after all three have been tried.
C9_StrategiesInOrder ==
    /\ Has("legacy_import") => (Has("tarball_import") /\ ~fast_result.success)
    /\ Has("content_copy") => Has("legacy_import")
    /\ (pc = "raised" /\ Has("tarball_import") /\ ~fast_result.success)
          => (Has("legacy_import") /\ Has("content_copy"))

\* C10: a rate-limit or forbidden failure (403, 429 or a rate-limit message)
\* of a replication strategy ends the run in the manual-fork outcome, with no
\* later strategy and not as a failure.
C10_RateLimitShortCircuits ==
    (/\ Has("tarball_import") /\ ~fast_result.success
     /\ ("403" \in fast_result.error \/ "429" \in fast_result.error
            \/ "rate limit" \in fast_result.error)
     /\ Ended)
        => IsManualFork /\ ~Has("legacy_import") /\ ~Has("content_copy")

\* C11: a run that ended after the create-repository request was answered
\* with a failure ended in failure, unless the answer was 403 or 429: then it
\* ended in the manual-fork outcome with the fork URL of the source.
C11_CreateFailureOutcome ==
    (create_resp \notin {0, 201} /\ Ended)
        => IF create_resp \in {403, 429}
           THEN IsManualFork /\ outcome.fork_url = fork_url
           ELSE pc = "raised"

\* C12: a run started with a progress job id has published `done` on that
\* job's channel by the time it has ended, whatever its outcome (nothing is
\* published for a run after it ended, so a `done` missing then is missing
\* for ever and the subscriber's stream only emits keep-alive frames).
C12_EveryRunPublishesDone ==
    (progress_job # "" /\ Ended) => Published("done")

Last(sq) == sq[Len(sq)]
Events(h) == [i \in 1..Len(h) |-> [event |-> h[i].event, data |-> h[i].data]]

\* C13: a stream that is open on a job when the job is already cancelled, and
\* has yielded no `done` yet, ends only by yielding the frame
\* done {"status": "cancelled"} as its last frame.
C13_CancelledStreamEndsCancelled ==
    [][\A s \in Subscribers :
          (/\ stream[s].state \in {"check", "waiting"}
           /\ stream[s].job \in cancelled
           /\ stream'[s].state = "ended")
              => Last(stream'[s].frames) = CancelledFrame]_vars

OnlySubscriber(s) ==
    /\ stream[s].state # "idle"
    /\ \A t \in Subscribers \ {s} : stream[t].state = "idle"

\* C14: the only subscriber of a job that is not cancelled has been yielded
\* the first events handed to publish for the job, in the order of the calls
\* and each once; what it has not been yielded yet is still queued in that
\* order; a `done` frame is its last frame and ends the stream, so nothing
\* after the first `done` is yielded.
C14_SingleSubscriberFifo ==
    \A s \in Subscribers :
        (OnlySubscriber(s) /\ stream[s].job \notin cancelled)
            => /\ stream[s].frames \o queues[stream[s].job]
                    = Events(published[stream[s].job])
               /\ \A i \in 1..Len(stream[s].frames) :
                     stream[s].frames[i].event = "done"
                        => i = Len(stream[s].frames) /\ stream[s].state = "ended"
               /\ stream[s].state = "ended" => Last(stream[s].frames).event = "done"

C14_Witness ==
    /\ OnlySubscriber("s1") /\ "j1" \notin cancelled
    /\ stream["s1"].state = "ended"
    /\ Len(stream["s1"].frames) = 2
    /\ Len(published["j1"]) = 3

\* C15: every subscriber that was inside its stream loop when an event was
\* published is yielded that event: once the job's queue is empty (all that
\* was published has been yielded to somebody) and the job is not cancelled,
\* each subscriber has at least as many frames as events were published
\* while it was subscribed.
C15_EverySubscriberGetsEveryEvent ==
    \A j \in JobIds : \A s \in Subscribers :
        (/\ j \in DOMAIN queues /\ queues[j] = << >> /\ j \notin cancelled
         /\ stream[s].job = j)
            => Len(stream[s].frames)
                  >= Cardinality({i \in 1..Len(published[j]) : s \in published[j][i].live})

C18_DispatchErrorClasses ==
    \A k \in Runs :
        disp.run[k].state = "done"
            => /\ disp.run[k].resp = 401 => disp.run[k].reported = 401
               /\ disp.run[k].resp = 429 => disp.run[k].reported = 429
               /\ disp.run[k].resp \notin {200, 401, 429}
                     => disp.run[k].reported \notin {200, 401, 429}

\* C19: every prompt sent by either entry point is at most 29000 characters
\* long, and one whose text would be longer carries the truncation marker.
C19_PromptWithinLimit ==
    \A i \in 1..Len(disp.requests) :
        /\ disp.requests[i].prompt.len <= 29000
        /\ TemplateLen + disp.customization.len > 29000 => disp.requests[i].prompt.marker

\* C20: a resume issues no fork, rename, create-repository, import,
\* content-copy or delete call, and it writes agents.md and sends the session
\* request only after the content listing of the repository was read and has
\* entries; with any other answer to the listing request it ends in an error
\* without a session request.
C20_ResumeOnlyOnVerifiedRepo ==
    /\ \A i \in 1..Len(calls) :
          calls[i] \in {"get_user", "get_repo", "probe_contents", "write_agents",
                        "create_session", "store_agent_assignment"}
    /\ (Has("write_agents") \/ Has("create_session"))
          => (contents_resp.status = 200 /\ "entries" \in contents_resp.text)
    /\ (pc \notin {"idle", "r_user", "r_repo", "r_contents"}
          /\ ~(contents_resp.status = 200 /\ "entries" \in contents_resp.text))
          => (pc = "raised" /\ ~Has("create_session"))

\* position of a call in the cascade; 0 for the reads that identify the caller
Phase(c) ==
    CASE c \in {"fork", "rename"} -> 1
      [] c \in {"get_repo", "create_repo"} -> 2
      [] c \in {"tarball_import", "create_git_blob", "create_git_tree", "create_git_commit",
                "create_git_ref", "legacy_import", "content_copy"} -> 3
      [] c \in {"probe_contents", "probe_meta", "delete_repo"} -> 4
      [] c = "write_agents" -> 5
      [] c = "create_session" -> 6
      [] OTHER -> 0
Cascade(cl) == SelectSeq(cl, LAMBDA c : Phase(c) > 0)
InCascadeOrder(cl) ==
    \A i, j \in 1..Len(Cascade(cl)) :
        i < j => Phase(Cascade(cl)[i]) <= Phase(Cascade(cl)[j])

\* C21: every step of a run leaves the calls issued so far in cascade order
\* (fork, existence check and creation, replication, emptiness probe,
\* metadata write, dispatch: no call of an earlier phase after one of a later
\* phase), and a run that has ended issues no further call.
C21_CascadeOrder ==
    [][/\ InCascadeOrder(calls')
       /\ Ended => calls' = calls]_vars

C21_Witness ==
    /\ pc = "returned" /\ outcome.status = "success"
    /\ Cascade(calls) = <<"fork", "get_repo", "create_repo", "tarball_import",
                          "create_git_blob", "create_git_tree", "create_git_commit",
                          "create_git_ref", "probe_contents", "write_agents",
                          "create_session">>

\* C22: an existence check answered with a status other than 200 and 404
\* ends the run in an error, and no create-repository call follows it.
C22_ExistenceErrorPropagates ==
    get_repo_resp \notin {0, 200, 404}
        => /\ pc = "raised"
           /\ ~Has("create_repo")

\* C23: when the fork was not used and the existence check found the target
\* repository (nothing looks at its content before the replication, so this
\* includes every non-empty one), the run issues no replication call: no
\* tarball import with its blob, tree, commit and ref writes, no import
\* request, no file copy.
C23_ExistingRepoShortCircuits ==
    (~fork_ok /\ get_repo_resp = 200)
        => \A i \in 1..Len(calls) : Phase(calls[i]) # 3

\* C24: resume_on_existing_repo applies the definition of empty that
\* _repo_is_empty has: a listing answered 404, or 200 with an empty list, is
\* rejected as empty (error 400), and after any other status than these two
\* the repository metadata is asked for its size.
C24_ResumeAppliesSameEmptiness ==
    /\ (contents_resp.status = 404
          \/ (contents_resp.status = 200 /\ "empty list" \in contents_resp.text))
          => (pc = "raised" /\ outcome.code = 400)
    /\ contents_resp.status \notin {0, 200, 404} => Has("probe_meta")

\* C25: the write of agents.md never ends a run: a run that has called
\* create_file for agents.md, whatever became of the call, has published
\* agent-start and sent the session request by the time it has ended.
C25_MetadataWriteIsBestEffort ==
    (Has("write_agents") /\ Ended)
        => /\ Has("create_session")
           /\ progress_job # "" => Published("agent-start")

\* C26: a fork request that timed out is followed by the existence check of
\* the create path, and a tarball import that timed out is followed by the
\* legacy import request: neither ends the run.
C26_TimeoutAdvancesCascade ==
    /\ (Has("fork") /\ pc # "fork" /\ fork_resp = 0) => Has("get_repo")
    /\ (Has("tarball_import") /\ fast_result.error = ETimeout /\ Ended)
          => Has("legacy_import")

\* C27: a run with prefer_import issues no fork (and no rename) call and
\* publishes neither fork-start nor fork-ok; the first call of its cascade is
\* the existence check of the target repository, announced by create-start.
C27_PreferImportSkipsFork ==
    req.prefer_import
        => /\ ~Has("fork") /\ ~Has("rename") /\ ~fork_ok
           /\ ~Published("fork-start") /\ ~Published("fork-ok")
           /\ Cascade(calls) # << >> => Cascade(calls)[1] = "get_repo"
           /\ (Has("get_repo") /\ progress_job # "") => Published("create-start")

C27_Witness ==
    /\ req.prefer_import /\ progress_job = "j1"
    /\ Has("get_repo") /\ Has("create_repo")
    /\ pc = "returned" /\ outcome.status = "success"

\* C28: once a stream of a job has ended (its last frame is a `done` frame),
\* the broker holds nothing for the job: no queue and no cancelled mark.
C28_NoStateAfterDone ==
    \A s \in Subscribers :
        stream[s].state = "ended"
            => /\ stream[s].job \notin DOMAIN queues
               /\ stream[s].job \notin cancelled

\* C29: a step in which a stream yields a keep-alive frame is taken only
\* while the stream waits on an empty queue; it leaves the stream open (back
\* at the top of its loop), yields no event frame, and leaves every queue and
\* the cancelled marks as they are.
C29_KeepaliveKeepsStreamOpen ==
    [][\A s \in Subscribers :
          stream'[s].keepalives > stream[s].keepalives
              => /\ stream[s].state = "waiting" /\ queues[stream[s].job] = << >>
                 /\ stream'[s].state = "check"
                 /\ stream'[s].frames = stream[s].frames
                 /\ queues' = queues /\ cancelled' = cancelled]_vars

C29_Witness ==
    /\ stream["s1"].keepalives = 1
    /\ stream["s1"].state = "ended"
    /\ Len(stream["s1"].frames) = 2
    /\ "j1" \notin cancelled

\* what the broker holds for job j: its queue ("none" when it has none) and
\* its cancelled mark
Held(q, c, j) == <<IF j \in DOMAIN q THEN q[j] ELSE "none", j \in c>>
\* the step is an operation for job j: a publish, a cancel, or a step of
\* (or the opening of) a stream of j
Touched(j) ==
    \/ published'[j] # published[j]
    \/ j \in cancelled' \ cancelled
    \/ \E s \in Subscribers : stream'[s] # stream[s] /\ stream'[s].job = j

\* C30: a publish, a cancel or a stream step for job A leaves the queue and
\* the cancelled mark of every other job B as they are, in every interleaving
\* of the operations of two jobs.
C30_JobsAreIndependent ==
    [][\A a, b \in JobIds :
          (a # b /\ Touched(a))
              => Held(queues', cancelled', b) = Held(queues, cancelled, b)]_vars

C30_Witness ==
    /\ stream["s1"].job = "j1" /\ stream["s1"].state = "ended"
    /\ stream["s2"].job = "j2" /\ stream["s2"].state = "waiting"
    /\ cancelled = {"j1"}
    /\ Len(published["j1"]) = 1 /\ Len(published["j2"]) = 2
    /\ Len(queues["j2"]) = 1

\* the step is an accepted request of the route op for spec i
Accepted(op, i) ==
    /\ kit_resp'.n = kit_resp.n + 1
    /\ kit_resp'.op = op /\ kit_resp'.id = i /\ kit_resp'.status = 200
IsDigits(t) == \A k \in 1..Len(t) : \E d \in 0..9 : str(d) = <<t[k]>>

\* C31: the spec an accepted specify request returns has the phase
\* "specification", the submitted requirements as its specification, a
\* feature_number of exactly three digits, and a branch_name that starts with
\* that feature_number and a hyphen.
C31_SpecifyResult ==
    [][\A i \in SpecIds, r \in Requirements, io \in Ios :
          (specify_phase(i, r, io) /\ Accepted("specify", i))
              => LET sp == kit_resp'.spec
                     f == sp.feature_number
                 IN /\ sp.phase = "specification"
                    /\ sp.specification = r
                    /\ Len(f) = 3 /\ IsDigits(f)
                    /\ Len(sp.branch_name) > Len(f)
                    /\ SubSeq(sp.branch_name, 1, Len(f) + 1) = f \o <<"-">>]_vars

\* C39: a plan request changes the stored spec only from the phase
\* "specification" and a tasks request only from the phase "plan"; a request
\* that is answered with an error leaves the store as it was; and every
\* accepted specify, plan or tasks request raises the stored version of its
\* spec by exactly 1.
C39_PhaseOrderAndVersion ==
    [][\A i \in SpecIds :
          /\ (kit_resp'.op = "plan" /\ specs'[i] # specs[i])
                => specs[i] # NoSpec /\ specs[i].phase = "specification"
          /\ (kit_resp'.op = "tasks" /\ specs'[i] # specs[i])
                => specs[i] # NoSpec /\ specs[i].phase = "plan"
          /\ kit_resp'.status # 200 => specs' = specs
          /\ \A op \in {"specify", "plan", "tasks"} :
                Accepted(op, i)
                   => /\ specs[i] # NoSpec /\ specs'[i] # NoSpec
                      /\ specs'[i].version = specs[i].version + 1]_vars

\* C32: a replication of n files calls progress_cb at most
\* 1 + floor(n / N) times, N being the reporting interval (ProgressEvery, the
\* interval of the tarball import): never once for every copied file.
C32_ProgressFrequencyBounded ==
    copy.cbs <= 1 + (copy.n \div ProgressEvery)

\* C33: a call of fast_import_from_tar that returns success has created
\* exactly one commit and has pointed a branch ref at it; it never returns
\* success with no commit.
C33_SuccessMeansOneCommit ==
    (imp.state = "returned" /\ imp.result.success)
        => imp.result.commits = 1 /\ imp.result.refs = 1

\* should_cancel() answered true at one of the checks the call made
CancelSeen ==
    /\ imp.state = "returned"
    /\ imp.world.cancel_from # 0
    /\ CancelChecks(imp.world) >= imp.world.cancel_from

\* C34: a call in which should_cancel() answered true at some check returns
\* success False and has created no tree, no commit and no ref.
C34_CancelledImportFails ==
    CancelSeen
        => /\ ~imp.result.success
           /\ \A k \in 1..Len(imp.result.writes) :
                 imp.result.writes[k] \notin {"create_git_tree", "create_git_commit",
                                              "create_git_ref"}

\* C35: on the job's queue no copy-progress event stands behind the import-ok
\* or copy-ok event of the strategy that produced it.
C35_ProgressBeforeStrategyEnd ==
    progress_job \in DOMAIN queues
        => LET q == queues[progress_job]
           IN \A i, k \in 1..Len(q) :
                 (q[i].event \in {"import-ok", "copy-ok"} /\ q[k].event = "copy-progress")
                     => k < i

HasDone(f) == \E i \in 1..Len(f) : f[i].event = "done"

\* C36: a `done` frame, published or the cancelled one, is the last frame a
\* stream yields, so a stream yields at most one; once it has yielded it the
\* stream takes nothing from the queue and yields nothing, no keep-alive either.
C36_DoneIsLastFrame ==
    [][\A s \in Subscribers :
          /\ HasDone(stream[s].frames) => stream'[s] = stream[s]
          /\ \A i \in 1..Len(stream'[s].frames) :
                stream'[s].frames[i].event = "done" => i = Len(stream'[s].frames)]_vars

C36_Witness ==
    /\ stream["s1"].state = "ended"
    /\ Len(stream["s1"].frames) = 2
    /\ stream["s1"].frames[2].event = "done"
    /\ "j1" \notin cancelled
    /\ queues["j1"] # << >>

\* C37: a cancelled job id stays cancelled; a stream that is opened for a
\* cancelled id has yielded nothing when it comes to its first check, its next
\* step yields the cancelled `done` frame as its only frame and takes nothing
\* from the queue, and after that the stream does nothing more.
C37_CancellationIsPermanent ==
    [][/\ cancelled \subseteq cancelled'
       /\ \A s \in Subscribers :
             /\ (stream[s].state = "idle" /\ stream'[s].state # "idle"
                    /\ stream'[s].job \in cancelled)
                   => /\ stream'[s].state = "check" /\ stream'[s].frames = << >>
                      /\ \A j \in DOMAIN queues : queues'[j] = queues[j]
             /\ (stream[s].state = "check" /\ stream[s].frames = << >>
                    /\ stream[s].keepalives = 0 /\ stream[s].job \in cancelled
                    /\ stream'[s] # stream[s])
                   => /\ stream'[s].state = "ended"
                      /\ stream'[s].frames = <<CancelledFrame>>
                      /\ queues' = queues
             /\ stream[s].state = "ended" => stream'[s] = stream[s]]_vars

C37_Witness ==
    /\ "j1" \in cancelled
    /\ stream["s1"].state = "ended"
    /\ stream["s1"].frames = <<CancelledFrame>>
    /\ stream["s2"].state = "idle"
    /\ Len(queues["j1"]) = MaxPublished

\* C38: the write of agents.md and the session request are issued only in a
\* run whose emptiness probe has answered "not empty", and after the requests
\* of that probe; a run whose probe answered "empty" issues neither.
C38_SessionOnlyAfterNonEmptyProbe ==
    /\ (Has("write_agents") \/ Has("create_session"))
          => /\ is_empty = "no"
             /\ Has("probe_contents")
             /\ \A i, k \in 1..Len(calls) :
                   (calls[i] \in {"write_agents", "create_session"}
                        /\ calls[k] \in {"probe_contents", "probe_meta"}) => k < i
    /\ is_empty = "yes" => ~Has("write_agents") /\ ~Has("create_session")

C38_Witness ==
    /\ pc = "dispatch"
    /\ Has("probe_meta") /\ Has("create_session")
    /\ is_empty = "no"
    /\ created_repo

====
